---- MODULE Spec2Model ----
(***************************************************************************)
(* kubectl-head: the command flow of cmd/kubectl-head (RunE: argument      *)
(* check, Complete, Validate, Run) and the paginated listing loop of       *)
(* pkg/head (HeadOptions.Run, GetResourceGVR, NewRestClient, Validate).    *)
(*                                                                         *)
(* Go strings that the code takes apart or compares with "" are sequences: *)
(* a resource name is a sequence of one-character strings, a continuation  *)
(* token is << >> (the empty string) or <<i>>, the opaque token with which *)
(* the backend resumes the enumeration after its first i items.  An error  *)
(* value is a tuple, << >> being nil.                                      *)
(***************************************************************************)
EXTENDS Integers, Sequences, FiniteSets, TLC

\* ------------------------------------------------------------- bounds

\* The backend's collection holds 0..MaxItems items.
MaxItems == 3
\* --limit is drawn from -1..MaxLimit (-1 and 0 are the non-positive values).
MaxLimit == 2
\* A chain of re-invocations with the printed token has at most MaxRuns runs.
MaxRuns == 3
\* Raw resource names of the GetResourceGVR specification have at most
\* MaxNameLen characters.
MaxNameLen == 3

\* The characters waiting on os.Stdin when the command starts.
MaxTyped == 2

\* ------------------------------------------------------------- values

Nil == << >>

Errorf(msg) == <<msg>>

\* The empty Go string, for the strings modelled as sequences.
Empty == << >>

Token(i) == <<i>>

Tokens == {Empty} \cup {Token(i) : i \in 0..MaxItems}

\* The number of items a token stands after.
Offset(tok) == IF tok = Empty THEN 0 ELSE tok[1]

\* The characters resource names are drawn from: a lower-case letter, the
\* same letter in upper case, another letter, and the separator.
Chars == {"a", "A", "b", "."}

RECURSIVE SeqsUpTo(_, _)
SeqsUpTo(S, n) ==
    IF n = 0 THEN {<< >>}
    ELSE LET shorter == SeqsUpTo(S, n - 1)
         IN  shorter \cup {Append(s, c) : s \in {t \in shorter : Len(t) = n - 1}, c \in S}

Names == SeqsUpTo(Chars, MaxNameLen)

\* The names the command flow is run with: undotted, one dot, two dots.
ArgNames == {<<"a">>, <<"A", ".", "b">>, <<"a", ".", "b", ".", "a">>}

ArgLists == {<< >>} \cup {<<n>> : n \in ArgNames} \cup {<<<<"a">>, <<"b">>>>}

\* The values of --limit.
Limits == {-1} \cup (0..MaxLimit)

OutputFormats == {"", "wide", "json"}

Selectors == {"", "app=web"}

Namespaces == {"default", "test"}

\* What the user can type at the prompt.
Runes == {"n", "q", "N"}

\* What can wait on os.Stdin before the first prompt: keys typed ahead, or
\* the content of a pipe.
TypedAhead == SeqsUpTo({"n", "q"}, MaxTyped)

\* schema.GroupVersionResource; its three strings are sequences.
GVR(g, v, r) == [Group |-> g, Version |-> v, Resource |-> r]

ZeroGVR == GVR(Empty, Empty, Empty)

\* The identifiers the name mapper can answer with: one of the core group,
\* one of a named group.
MapperGVRs == {GVR(Empty, <<"v1">>, <<"a">>), GVR(<<"b">>, <<"v1">>, <<"a">>)}

\* rest.Config, the fields NewRestClient touches.  NilConfig is the nil
\* pointer o.RESTConfig holds before Complete.
Config(path, gv, accept, ser) ==
    [APIPath |-> path, GroupVersion |-> gv, AcceptContentTypes |-> accept,
     NegotiatedSerializer |-> ser]

NoGV == [Group |-> Empty, Version |-> Empty]

NilConfig == Config("nil", NoGV, "nil", "nil")

\* The configurations ToRESTConfig can load.
ConfigTemplates == {Config("", NoGV, "", "")}

\* The configurations a caller can hand to NewRestClient: any path prefix
\* and any group and version may already be set in them.
ClientConfigs ==
    {Config(path, gv, "", "") :
        path \in {"", "/api", "/apis", "/custom"},
        gv \in {NoGV, [Group |-> <<"b">>, Version |-> <<"v1">>]}}

\* The groups and versions NewRestClient is called with.
GroupVersions ==
    {[Group |-> g, Version |-> v] :
        g \in {Empty, <<"b">>, <<"a", ".", "b">>},
        v \in {<<"v1">>, <<"v2">>, <<"v1beta1">>}}

\* metav1.Table: the rows (each row is the number of the item it shows) and
\* the continuation token of the list metadata.
Table(rows, cont) == [Rows |-> rows, Continue |-> cont]

ZeroTable == Table(<< >>, Empty)

Min(a, b) == IF a <= b THEN a ELSE b

\* ------------------------------------------------------ pure functions

\* strings.ToLower, one character.
LowerChar(c) == IF c = "A" THEN "a" ELSE c

\* strings.ToLower
ToLower(s) == [i \in 1..Len(s) |-> LowerChar(s[i])]

\* strings.Split(s, "."): the parts between the separators, one more than
\* there are separators (so the empty string gives one empty part).
RECURSIVE Split(_)
Split(s) ==
    IF \A i \in 1..Len(s) : s[i] # "."
    THEN <<s>>
    ELSE LET d == CHOOSE i \in 1..Len(s) : s[i] = "." /\ \A j \in 1..(i - 1) : s[j] # "."
         IN  <<SubSeq(s, 1, d - 1)>> \o Split(SubSeq(s, d + 1, Len(s)))

\* A slip of GetResourceGVR: the name is split as typed and the resource
\* part alone is lower-cased.
GvrToFindLowersResourceOnly(resource) ==
    LET parts == Split(resource)
    IN  IF Len(parts) = 2
        THEN GVR(parts[2], Empty, ToLower(parts[1]))
        ELSE GVR(Empty, Empty, ToLower(resource))

\* A slip of GetResourceGVR: any dotted name is split at its first dot.
GvrToFindFirstDot(resource) ==
    LET resourceArg == ToLower(resource)
        parts == Split(resourceArg)
    IN  IF Len(parts) >= 2
        THEN GVR(parts[2], Empty, parts[1])
        ELSE GVR(Empty, Empty, resourceArg)

\* GetResourceGVR, the partial identifier handed to the mapper.
GvrToFind(resource) ==
    LET resourceArg == ToLower(resource)
        parts == Split(resourceArg)
    IN  IF Len(parts) = 2
        THEN GVR(parts[2], Empty, parts[1])
        ELSE GVR(Empty, Empty, resourceArg)

\* A slip of GetResourceGVR: the error names the lower-cased name.
NotFoundLowered(resource) ==
    <<"the server doesn't have a resource type", ToLower(resource)>>

\* GetResourceGVR, the error returned when the mapper fails.
NotFound(resource) == <<"the server doesn't have a resource type", resource>>

\* What Mapper.ResourceFor can answer: an identifier, or an error.
MapperAnswers ==
    {[gvr |-> g, err |-> Nil] : g \in MapperGVRs}
        \cup {[gvr |-> ZeroGVR, err |-> Errorf("no matches for resource")],
              [gvr |-> ZeroGVR, err |-> Errorf("group does not match")]}

\* GetResourceGVR, lines 213-218: what it returns on the mapper's answer.
GetResourceGVR(resource, answer) ==
    IF answer.err # Nil
    THEN [gvr |-> ZeroGVR, err |-> NotFound(resource)]
    ELSE [gvr |-> answer.gvr, err |-> Nil]

\* A slip of Validate: a limit of zero passes.
ValidateNegativeOnly(opts) ==
    IF opts.Limit < 0
    THEN Errorf("--limit must be a positive number")
    ELSE IF opts.Interactive /\ opts.ContinueToken # Empty
    THEN Errorf("cannot use --interactive and --continue flags together")
    ELSE IF opts.Interactive /\ (opts.OutputFormat # "" /\ opts.OutputFormat # "wide")
    THEN Errorf("interactive mode is only supported for standard and wide table output")
    ELSE Nil

\* A slip of Validate: interactive with a starting token passes.
ValidateNoContinueRule(opts) ==
    IF opts.Limit <= 0
    THEN Errorf("--limit must be a positive number")
    ELSE IF opts.Interactive /\ (opts.OutputFormat # "" /\ opts.OutputFormat # "wide")
    THEN Errorf("interactive mode is only supported for standard and wide table output")
    ELSE Nil

\* A slip of Validate: the output format is checked before the token.
ValidateFormatFirst(opts) ==
    IF opts.Limit <= 0
    THEN Errorf("--limit must be a positive number")
    ELSE IF opts.Interactive /\ (opts.OutputFormat # "" /\ opts.OutputFormat # "wide")
    THEN Errorf("interactive mode is only supported for standard and wide table output")
    ELSE IF opts.Interactive /\ opts.ContinueToken # Empty
    THEN Errorf("cannot use --interactive and --continue flags together")
    ELSE Nil

\* HeadOptions.Validate: the error it returns, Nil when the options pass.
Validate(opts) ==
    IF opts.Limit <= 0
    THEN Errorf("--limit must be a positive number")
    ELSE IF opts.Interactive /\ opts.ContinueToken # Empty
    THEN Errorf("cannot use --interactive and --continue flags together")
    ELSE IF opts.Interactive /\ (opts.OutputFormat # "" /\ opts.OutputFormat # "wide")
    THEN Errorf("interactive mode is only supported for standard and wide table output")
    ELSE Nil

\* gvr.GroupVersion()
GroupVersion(g) == [Group |-> g.Group, Version |-> g.Version]

\* A slip of NewRestClient: a path prefix already set is kept.
NewRestClientKeepsPath(config, gv) ==
    [config EXCEPT
        !.GroupVersion = gv,
        !.APIPath = IF config.APIPath # "" THEN config.APIPath
                    ELSE IF gv.Group = Empty THEN "/api" ELSE "/apis",
        !.AcceptContentTypes = "application/json;as=Table;v=v1;g=meta.k8s.io,application/json",
        !.NegotiatedSerializer = "WithoutConversion"]

\* NewRestClient: the configuration the client is built from (the argument
\* is a copy of the caller's configuration).
NewRestClient(config, gv) ==
    [config EXCEPT
        !.GroupVersion = gv,
        !.APIPath = IF gv.Group = Empty THEN "/api" ELSE "/apis",
        !.AcceptContentTypes = "application/json;as=Table;v=v1;g=meta.k8s.io,application/json",
        !.NegotiatedSerializer = "WithoutConversion"]

\* A slip of Run: the token is left out of the request.
ListOptionsNoToken(limit, cont, selector, namespace, resource) ==
    [Limit |-> limit, Continue |-> Empty, LabelSelector |-> selector,
     Namespace |-> namespace, Resource |-> resource]

\* A slip of NewRestClient: the configuration is taken by pointer, so the
\* assignments land in the caller's configuration.
CallersConfigWrittenThrough(config, gv) == NewRestClient(config, gv)

\* NewRestClient, line 186, and Run, line 116: the configuration is
\* passed by value (Run passes *o.RESTConfig), and the assignments of
\* lines 187-193 are to fields of the copy; this is the caller's
\* configuration after the call.
CallersConfig(config, gv) == config

\* metav1.ListOptions of one request, with the namespace and the resource
\* the request is addressed to.
ListOptions(limit, cont, selector, namespace, resource) ==
    [Limit |-> limit, Continue |-> cont, LabelSelector |-> selector,
     Namespace |-> namespace, Resource |-> resource]

\* ------------------------------------------------------------ backend

\* The rows of a page of n items after the first off items.
PageRows(off, n) == [i \in 1..n |-> off + i]

\* Page t, the answer to a request with token cont, carries a token
\* exactly when items of the k remain after it.
TokenExact(k, cont, t) ==
    (t.Continue # Empty) <=> (Offset(cont) + Len(t.Rows) < k)

\* Page t, the answer to a request with token cont, holds a row unless no
\* item of the k was left to return.
HoldsRows(k, cont, t) ==
    Offset(cont) < k => Len(t.Rows) >= 1

\* The pages a backend holding k items may answer a request with: any
\* number of the following items up to the limit, with or without a token
\* to resume after them.  A token past the end of the collection is
\* answered with an error only.
Pages(k, limit, cont) ==
    LET off == Offset(cont)
    IN  IF off > k THEN {}
        ELSE UNION {{Table(PageRows(off, n), Empty), Table(PageRows(off, n), Token(off + n))} :
                       n \in 0..Min(limit, k - off)}

\* ------------------------------------------------------- output sink

\* What Run writes to o.Out, one entry per write.
Notice == [kind |-> "No resources found.", rows |-> << >>, token |-> Empty]

\* printers.NewTablePrinter(...).PrintObj(table, o.Out): the header and
\* the rows.
PrintObj(t) == [kind |-> "table", rows |-> t.Rows, token |-> Empty]

EndOfList == [kind |-> "--- End of list ---", rows |-> << >>, token |-> Empty]

Prompt == [kind |-> "--- [n] next page, [q] quit: ", rows |-> << >>, token |-> Empty]

ContinueLine(tok) == [kind |-> "Continue Token: ", rows |-> << >>, token |-> tok]

\* What the sink answers a write with: nil, or an error.
SinkAnswers == {Nil, Errorf("write failed")}

\* The text a write puts on the sink, line by line: a rendered table is
\* its header line and one line per row (each page is rendered by a
\* printer of its own, so each page has its header); the prompt, the
\* end-of-list marker and the token line start with a line break, which
\* gives an empty line first.
LinesOf(w) ==
    IF w.kind = "table"
    THEN <<<<"header">>>> \o [i \in 1..Len(w.rows) |-> <<"row", w.rows[i]>>]
    ELSE IF w.kind = "No resources found."
    THEN <<<<w.kind>>>>
    ELSE IF w.kind = "Continue Token: "
    THEN << << >>, <<w.kind, w.token>> >>
    ELSE << << >>, <<w.kind>> >>

\* The lines of a sequence of writes.
RECURSIVE Lines(_)
Lines(ws) == IF ws = << >> THEN << >> ELSE LinesOf(Head(ws)) \o Lines(Tail(ws))

\* -------------------------------------------------------------- state

VARIABLES
    args,            \* the positional arguments of the command
    o,               \* the HeadOptions
    pc,              \* where the command is
    err,             \* the error RunE returns (Nil: none)
    lookups,         \* the partial identifiers handed to Mapper.ResourceFor
    answers,         \* what Mapper.ResourceFor answered, lookup by lookup
    gvr,             \* Run: the identifier the mapper answered with
    ns,              \* Run: the namespace of the requests
    restClient,      \* Run: the configuration of the table client
    continueToken,   \* Run: the token of the next request
    isFirstRequest,  \* Run: no page was rendered yet
    table,           \* Run: the page last received
    char,            \* Run: the key last read at the prompt ("": none)
    requests,        \* the list requests issued by this Run, in order
    out,             \* the writes of this Run to o.Out, in order
    writeErrors,     \* the kinds of the writes of this Run the sink answered with an error
    stdoutLines,     \* the newlines Run printed on os.Stdout after a key
    stdin,           \* os.Stdin: the characters waiting to be read
    stdinRead,       \* os.Stdin: the characters this Run has taken from it
    items,           \* backend: the number of items of the collection
    tokensExact,     \* backend: every page of the chain so far was TokenExact
    pagesHoldRows,   \* backend: every page of the chain so far HoldsRows
    runs,            \* the invocations of the chain so far, this one included
    shown,           \* the rows rendered by the chain so far, in order
    chainStart       \* the starting token of the chain's first invocation

optVars == <<args, o>>
runVars == <<lookups, answers, gvr, ns, restClient, continueToken, isFirstRequest, table, char>>
ioVars == <<requests, out, writeErrors, stdoutLines, stdin, stdinRead>>
envVars == <<items, tokensExact, pagesHoldRows, runs, shown, chainStart>>
vars == <<optVars, pc, err, runVars, ioVars, envVars>>

\* ------------------------------------------------- Run, step by step

\* A slip of Run: --all-namespaces is not looked at.
RequestNamespaceConfigured(opts) == opts.Namespace

\* Run, lines 110-113: the namespace the requests are addressed to.
RequestNamespace(opts) == IF opts.AllNamespaces THEN "" ELSE opts.Namespace

\* A slip of Run: every page without rows is answered with the notice.
NoResourcesAnyPage(first, t) == Len(t.Rows) = 0

\* A slip of Run: the notice only when the empty page is also the last.
NoResourcesOnLastPage(first, t) == first /\ Len(t.Rows) = 0 /\ t.Continue = Empty

\* Run, line 143: the first page came back without rows.
NoResources(first, t) == first /\ Len(t.Rows) = 0

\* Run, line 155: the token the next request carries.
NextToken(t) == t.Continue

\* A slip of Run: the token line carries the token of the request, the
\* local not yet updated from the page.
TokenWritesStale(interactive, tok) ==
    IF tok = Empty
    THEN IF interactive THEN <<EndOfList>> ELSE << >>
    ELSE IF interactive
    THEN <<Prompt>>
    ELSE <<ContinueLine(continueToken)>>

\* A slip of Run: the test of the mode is inverted in the pagination flow.
TokenWritesSwapped(interactive, tok) ==
    IF tok = Empty
    THEN IF interactive THEN <<EndOfList>> ELSE << >>
    ELSE IF ~interactive
    THEN <<Prompt>>
    ELSE <<ContinueLine(tok)>>

\* A slip of Run: the end-of-list marker is written in both modes.
TokenWritesMarkerAlways(interactive, tok) ==
    IF tok = Empty
    THEN <<EndOfList>>
    ELSE IF interactive
    THEN <<Prompt>>
    ELSE <<ContinueLine(tok)>>

\* A slip of Run: the token line is written for an empty token too.
TokenWritesTokenAlways(interactive, tok) ==
    IF interactive
    THEN IF tok = Empty THEN <<EndOfList>> ELSE <<Prompt>>
    ELSE <<ContinueLine(tok)>>

\* Run, lines 158-181: what is written after a rendered page whose token
\* is tok.
TokenWrites(interactive, tok) ==
    IF tok = Empty
    THEN IF interactive THEN <<EndOfList>> ELSE << >>
    ELSE IF interactive
    THEN <<Prompt>>
    ELSE <<ContinueLine(tok)>>

\* A slip of Run: the interactive mode prompts after the last page too.
AfterPagePromptsAtEnd(interactive, tok) ==
    IF interactive THEN "ReadRune" ELSE "exit"

\* A slip of Run: the non-interactive mode goes on to the next page.
AfterPageAutoContinue(interactive, tok) ==
    IF tok = Empty
    THEN "exit"
    ELSE IF interactive THEN "ReadRune" ELSE "List"

\* Run, lines 158-181: where Run goes after a rendered page whose token is
\* tok: it returns, or it waits for the user's key.
AfterPage(interactive, tok) ==
    IF tok = Empty
    THEN "exit"
    ELSE IF interactive THEN "ReadRune" ELSE "exit"

\* A slip of Run: only 'q' quits.
AfterRuneQuitOnQ(c) == IF c = "q" THEN "exit" ELSE "List"

\* Run, lines 174-176: the loop goes round again on 'n' alone.
AfterRune(c) == IF c # "n" THEN "exit" ELSE "List"

\* A slip of Run: the table is printed before the error of the request is
\* looked at, so a failed request shows the page held from before.
RequestErrorOutStalePage(written) == Append(written, PrintObj(table))

\* Run, lines 138-140: a failed request returns before anything is
\* written; the output is what was written before.
RequestErrorOut(written) == written

\* A slip of Run: a failed request is tried again.
AfterRequestErrorRetry == "List"

\* Run, lines 138-140: a failed request returns the error.
AfterRequestError == "exit"

\* A slip of RunE: the error of Validate is dropped.
AfterValidateIgnored(e) == "Run"

\* RunE, lines 56-58 of cmd/kubectl-head: Run starts only when Validate
\* returned nil.
AfterValidate(e) == IF e # Nil THEN "exit" ELSE "Run"

\* A slip of main: the error of Execute is not turned into an exit code.
ExitCodeZero(e) == 0

\* main, lines 16-18 of cmd/kubectl-head: the exit code of the process
\* when Execute (that is, RunE) returned e.
ExitCode(e) == IF e # Nil THEN 1 ELSE 0

\* NewHeadOptions and the flags cobra parsed into it.
HeadOptions(limit, cont, interactive, selector, allNamespaces, format) ==
    [Resource |-> Empty, Limit |-> limit, ContinueToken |-> cont,
     Interactive |-> interactive, Selector |-> selector,
     AllNamespaces |-> allNamespaces, Namespace |-> "",
     RESTConfig |-> NilConfig, OutputFormat |-> format]

\* The locals of Run before Run has started.
RunNotStarted ==
    /\ lookups = << >>
    /\ answers = << >>
    /\ gvr = ZeroGVR
    /\ ns = ""
    /\ restClient = NilConfig
    /\ continueToken = Empty
    /\ isFirstRequest = TRUE
    /\ table = ZeroTable
    /\ char = ""

NothingDone ==
    /\ requests = << >>
    /\ out = << >>
    /\ writeErrors = {}
    /\ stdoutLines = 0
    /\ stdinRead = 0

\* main: the process starts in RunE with the flags parsed.
Init ==
    /\ args \in ArgLists
    /\ o \in {HeadOptions(l, c, i, s, a, f) :
                l \in Limits, c \in Tokens, i \in BOOLEAN,
                s \in Selectors, a \in BOOLEAN, f \in OutputFormats}
    /\ pc = "RunE"
    /\ err = Nil
    /\ RunNotStarted
    /\ NothingDone
    /\ stdin \in (IF o.Interactive THEN TypedAhead ELSE {<< >>})
    /\ items \in 0..MaxItems
    /\ tokensExact = TRUE
    /\ pagesHoldRows = TRUE
    /\ runs = 1
    /\ shown = << >>
    /\ chainStart = o.ContinueToken

\* RunE, lines 46-51: exactly one positional argument.
CheckArgs ==
    /\ pc = "RunE"
    /\ IF Len(args) = 0
       THEN /\ err' = Errorf("you must specify the type of resource to head")
            /\ pc' = "exit"
       ELSE IF Len(args) > 1
       THEN /\ err' = Errorf("only one resource type is allowed")
            /\ pc' = "exit"
       ELSE /\ err' = err
            /\ pc' = "Complete"
    /\ UNCHANGED <<optVars, runVars, ioVars, envVars>>

\* HeadOptions.Complete: the resource is stored first; the mapper, the
\* namespace, the configuration and the dynamic client follow, each of
\* which can fail.
Complete ==
    /\ pc = "Complete"
    /\ \E failure \in {"mapper", "namespace", "config", "client", "none"},
          namespace \in Namespaces, config \in ConfigTemplates :
          /\ o' = [o EXCEPT
                     !.Resource = args[1],
                     !.Namespace =
                         IF failure \in {"config", "client", "none"} THEN namespace ELSE @,
                     !.RESTConfig =
                         IF failure \in {"client", "none"} THEN config ELSE @]
          /\ IF failure = "none"
             THEN err' = err /\ pc' = "Validate"
             ELSE err' = <<"Complete", failure>> /\ pc' = "exit"
    /\ UNCHANGED <<args, runVars, ioVars, envVars>>

\* RunE, lines 56-58: Validate, and Run only when it passes.
DoValidate ==
    /\ pc = "Validate"
    /\ err' = Validate(o)
    /\ pc' = AfterValidate(Validate(o))
    /\ UNCHANGED <<optVars, runVars, ioVars, envVars>>

\* Run, lines 105-122: the resource lookup, the namespace, the client and
\* the locals of the loop.
RunBegin ==
    /\ pc = "Run"
    /\ lookups' = Append(lookups, GvrToFind(o.Resource))
    /\ \E answer \in MapperAnswers, clientOK \in BOOLEAN :
          LET found == GetResourceGVR(o.Resource, answer)
          IN  /\ answers' = Append(answers, answer)
              /\ IF found.err # Nil
                 THEN /\ err' = found.err
                      /\ pc' = "exit"
                      /\ UNCHANGED <<o, gvr, ns, restClient, continueToken, isFirstRequest>>
                 ELSE /\ gvr' = found.gvr
                      /\ ns' = RequestNamespace(o)
                      /\ o' = [o EXCEPT !.RESTConfig =
                                  CallersConfig(o.RESTConfig, GroupVersion(found.gvr))]
                      /\ IF clientOK
                         THEN /\ restClient' = NewRestClient(o.RESTConfig, GroupVersion(found.gvr))
                              /\ continueToken' = o.ContinueToken
                              /\ isFirstRequest' = TRUE
                              /\ err' = err
                              /\ pc' = "List"
                         ELSE /\ err' = Errorf("RESTClientFor")
                              /\ pc' = "exit"
                              /\ UNCHANGED <<restClient, continueToken, isFirstRequest>>
    /\ UNCHANGED <<args, table, char, ioVars, envVars>>

\* The kinds of the failed writes once the sink has answered the writes ws
\* (one write, or none) with e.
Failed(ws, e) ==
    IF e # Nil /\ ws # << >> THEN writeErrors \cup {ws[1].kind} ELSE writeErrors

\* Run, lines 125-181: one round of the loop, from the request to the
\* return or to the prompt.
ListPage ==
    /\ pc = "List"
    /\ Len(requests) <= MaxItems
    /\ requests' = Append(requests,
            ListOptions(o.Limit, continueToken, o.Selector, ns, gvr.Resource))
    /\ \/ \* the request fails
          /\ err' = Errorf("request failed")
          /\ pc' = AfterRequestError
          /\ out' = RequestErrorOut(out)
          /\ UNCHANGED <<table, writeErrors, continueToken, isFirstRequest,
                         tokensExact, pagesHoldRows, shown>>
       \/ \E t \in Pages(items, o.Limit, continueToken) :
             /\ table' = t
             /\ tokensExact' = (tokensExact /\ TokenExact(items, continueToken, t))
             /\ pagesHoldRows' = (pagesHoldRows /\ HoldsRows(items, continueToken, t))
             /\ IF NoResources(isFirstRequest, t)
                THEN \* fmt.Fprintln, whose error is not looked at
                     \E e \in SinkAnswers :
                        /\ out' = Append(out, Notice)
                        /\ writeErrors' = Failed(<<Notice>>, e)
                        /\ err' = Nil
                        /\ pc' = "exit"
                        /\ UNCHANGED <<continueToken, isFirstRequest, shown>>
                ELSE \/ \* the sink refuses the page: PrintObj returns the error
                        /\ out' = Append(out, PrintObj(t))
                        /\ writeErrors' = Failed(<<PrintObj(t)>>, Errorf("write failed"))
                        /\ err' = Errorf("write failed")
                        /\ pc' = "exit"
                        /\ UNCHANGED <<continueToken, isFirstRequest, shown>>
                     \/ \* the page is written; the error of the fmt.Fprintln or
                        \* fmt.Fprintf that follows is not looked at
                        \E e \in SinkAnswers :
                           /\ isFirstRequest' = FALSE
                           /\ continueToken' = NextToken(t)
                           /\ out' = Append(out, PrintObj(t))
                                       \o TokenWrites(o.Interactive, NextToken(t))
                           /\ writeErrors' =
                                  Failed(TokenWrites(o.Interactive, NextToken(t)), e)
                           /\ shown' = shown \o t.Rows
                           /\ err' = Nil
                           /\ pc' = AfterPage(o.Interactive, NextToken(t))
    /\ UNCHANGED <<optVars, lookups, answers, gvr, ns, restClient, char, stdoutLines,
                   stdin, stdinRead, items, runs, chainStart>>

\* A slip of Run: a failed read ends the session without an error.
ReadRuneErrorDropped(e) == Nil

\* Run, lines 170-172: the error Run returns when ReadRune failed with e.
ReadRuneError(e) == e

\* The errors reader.ReadRune can fail with: a broken stream at any time,
\* the end of the input when nothing is waiting.
ReadErrors(input) ==
    {Errorf("read failed")} \cup (IF input = << >> THEN {Errorf("EOF")} ELSE {})

\* bufio.NewReader(os.Stdin).ReadRune(), lines 168-169, when it succeeds:
\* the new reader fills its buffer with one read of os.Stdin, which takes
\* the first character and any number of the characters waiting behind it;
\* ReadRune returns the first, and the rest of the buffer goes with the
\* reader when the round ends.  With nothing waiting the read blocks until
\* the user types a key.
Fill(input) ==
    IF input = << >>
    THEN {[char |-> c, rest |-> << >>, taken |-> 1] : c \in Runes}
    ELSE {[char |-> input[1], rest |-> SubSeq(input, n + 1, Len(input)), taken |-> n] :
             n \in 1..Len(input)}

\* Run, lines 166-176: the prompt is answered, one key is read from
\* os.Stdin through a reader made for this round.
ReadRune ==
    /\ pc = "ReadRune"
    /\ \/ \E e \in ReadErrors(stdin) :
             /\ char' = ""
             /\ err' = ReadRuneError(e)
             /\ pc' = "exit"
             /\ UNCHANGED <<stdoutLines, stdin, stdinRead>>
       \/ \E f \in Fill(stdin) :
             /\ char' = f.char
             /\ stdin' = f.rest
             /\ stdinRead' = stdinRead + f.taken
             /\ stdoutLines' = stdoutLines + 1
             /\ err' = Nil
             /\ pc' = AfterRune(f.char)
    /\ UNCHANGED <<optVars, lookups, answers, gvr, ns, restClient, continueToken,
                   isFirstRequest, table, requests, out, writeErrors, envVars>>

\* The token a finished Run printed, Empty when it printed none.
PrintedToken ==
    IF out # << >> /\ out[Len(out)].kind = "Continue Token: "
    THEN out[Len(out)].token
    ELSE Empty

\* The user runs the command again with --continue set to the token the
\* previous invocation printed (the token line reached the sink),
\* everything else as before.
Reinvoke ==
    /\ pc = "exit"
    /\ err = Nil
    /\ PrintedToken # Empty
    /\ ContinueLine(PrintedToken).kind \notin writeErrors
    /\ runs < MaxRuns
    /\ o' = [HeadOptions(o.Limit, PrintedToken, o.Interactive, o.Selector,
                         o.AllNamespaces, o.OutputFormat) EXCEPT !.Resource = Empty]
    /\ pc' = "RunE"
    /\ err' = Nil
    /\ lookups' = << >>
    /\ answers' = << >>
    /\ gvr' = ZeroGVR
    /\ ns' = ""
    /\ restClient' = NilConfig
    /\ continueToken' = Empty
    /\ isFirstRequest' = TRUE
    /\ table' = ZeroTable
    /\ char' = ""
    /\ requests' = << >>
    /\ out' = << >>
    /\ writeErrors' = {}
    /\ stdoutLines' = 0
    /\ stdinRead' = 0
    /\ runs' = runs + 1
    /\ UNCHANGED <<args, stdin, items, tokensExact, pagesHoldRows, shown, chainStart>>

Next ==
    \/ CheckArgs
    \/ Complete
    \/ DoValidate
    \/ RunBegin
    \/ ListPage
    \/ ReadRune
    \/ Reinvoke

Spec == Init /\ [][Next]_vars

\* ------------------------------------------------ one Run, to its end

\* One invocation of the command.
NextRun ==
    \/ CheckArgs
    \/ Complete
    \/ DoValidate
    \/ RunBegin
    \/ ListPage
    \/ ReadRune

\* The command is one thread of control whose calls block and then
\* return: a step that can be taken is taken, every list request is
\* answered (with a page or an error) and every read of the user's key
\* comes back (with a key or an error).
Fairness ==
    /\ WF_vars(CheckArgs)
    /\ WF_vars(Complete)
    /\ WF_vars(DoValidate)
    /\ WF_vars(RunBegin)
    /\ WF_vars(ListPage)
    /\ WF_vars(ReadRune)

\* The invocations whose flags bear on how long Run goes on: any limit,
\* starting token, mode, typed-ahead input and collection; no selector,
\* the configured namespace, the standard table output.
InitRun ==
    /\ Init
    /\ o.Selector = ""
    /\ ~o.AllNamespaces
    /\ o.OutputFormat = ""

SpecLive == InitRun /\ [][NextRun]_vars /\ Fairness

\* ------------------------------------- GetResourceGVR, called directly

\* A HeadOptions from NewHeadOptions whose Resource was set to any name,
\* as TestGetResourceGVR sets it.
InitGVR ==
    /\ args = << >>
    /\ o \in {[HeadOptions(0, Empty, FALSE, "", FALSE, "") EXCEPT !.Resource = n] : n \in Names}
    /\ pc = "GetResourceGVR"
    /\ err = Nil
    /\ RunNotStarted
    /\ NothingDone
    /\ stdin = << >>
    /\ items = 0
    /\ tokensExact = TRUE
    /\ pagesHoldRows = TRUE
    /\ runs = 1
    /\ shown = << >>
    /\ chainStart = Empty

\* GetResourceGVR, lines 199-219.
CallGetResourceGVR ==
    /\ pc = "GetResourceGVR"
    /\ lookups' = Append(lookups, GvrToFind(o.Resource))
    /\ \E answer \in MapperAnswers :
          /\ answers' = Append(answers, answer)
          /\ gvr' = GetResourceGVR(o.Resource, answer).gvr
          /\ err' = GetResourceGVR(o.Resource, answer).err
    /\ pc' = "returned"
    /\ UNCHANGED <<optVars, ns, restClient, continueToken, isFirstRequest, table, char,
                   ioVars, envVars>>

NextGVR == CallGetResourceGVR

SpecGVR == InitGVR /\ [][NextGVR]_vars
\* --------------------------------------- NewRestClient, called directly

\* Any configuration and any group and version, as TestNewRestClient
\* passes them.
InitClient ==
    /\ args = << >>
    /\ o \in {[HeadOptions(0, Empty, FALSE, "", FALSE, "") EXCEPT !.RESTConfig = c] :
                c \in ClientConfigs}
    /\ pc = "NewRestClient"
    /\ err = Nil
    /\ lookups = << >>
    /\ answers = << >>
    /\ gvr \in {GVR(gv.Group, gv.Version, <<"a">>) : gv \in GroupVersions}
    /\ ns = ""
    /\ restClient = NilConfig
    /\ continueToken = Empty
    /\ isFirstRequest = TRUE
    /\ table = ZeroTable
    /\ char = ""
    /\ NothingDone
    /\ stdin = << >>
    /\ items = 0
    /\ tokensExact = TRUE
    /\ pagesHoldRows = TRUE
    /\ runs = 1
    /\ shown = << >>
    /\ chainStart = Empty

\* NewRestClient, lines 186-196: the client of the configuration, or the
\* error of rest.RESTClientFor and no client.
CallNewRestClient ==
    /\ pc = "NewRestClient"
    /\ o' = [o EXCEPT !.RESTConfig = CallersConfig(o.RESTConfig, GroupVersion(gvr))]
    /\ \/ /\ restClient' = NewRestClient(o.RESTConfig, GroupVersion(gvr))
          /\ err' = Nil
       \/ /\ restClient' = NilConfig
          /\ err' = Errorf("RESTClientFor")
    /\ pc' = "returned"
    /\ UNCHANGED <<args, lookups, answers, gvr, ns, continueToken, isFirstRequest,
                   table, char, ioVars, envVars>>

NextClient == CallNewRestClient

SpecClient == InitClient /\ [][NextClient]_vars
\* ------------------------------------------------------------- claims

\* The command has returned (from RunE, with err).
Returned == pc = "exit"

\* The chain of non-interactive invocations has come to its end: the last
\* invocation received its page, returned without error and printed no token.
ChainEnded ==
    /\ Returned /\ err = Nil
    /\ requests # << >>
    /\ PrintedToken = Empty

\* What C1 says of a chain: the rows rendered so far are the first items of
\* the collection, each once and in order, and at the end of the chain they
\* are all the items and the last page carries the empty token.
EveryItemOnce ==
    /\ Len(shown) <= items
    /\ shown = PageRows(0, Len(shown))
    /\ ChainEnded => (shown = PageRows(0, items) /\ table.Continue = Empty)

\* C1 as stated: in every chain of non-interactive invocations started
\* with the empty token over an unchanging collection, the backend
\* returning at most the limit per page and a token exactly when items
\* remain, every item is rendered exactly once and the last invocation
\* receives a page with the empty token.
C1_AsStated ==
    (tokensExact /\ chainStart = Empty /\ ~o.Interactive) => EveryItemOnce

\* C1, amended: the same, for a backend that moreover returns at least one
\* item per page while items remain.
C1_ChainVisitsEveryItemOnce ==
    (tokensExact /\ pagesHoldRows /\ chainStart = Empty /\ ~o.Interactive) => EveryItemOnce

\* C1 witness: a chain of three invocations with a limit of two, one page
\* at least shorter than the limit, has rendered a collection of three items
\* completely.
C1_Witness ==
    /\ tokensExact /\ pagesHoldRows /\ chainStart = Empty /\ ~o.Interactive
    /\ runs = 3 /\ items = 3 /\ o.Limit = 2
    /\ ChainEnded
    /\ shown = PageRows(0, items)

\* C2: a non-interactive Run never issues a second list request: after its
\* one request it has returned, whatever the page held; and a Run that
\* built its client and returned has issued exactly one.
C2_OneRequestPerInvocation ==
    ~o.Interactive =>
        /\ Len(requests) <= 1
        /\ Len(requests) = 1 => Returned
        /\ (Returned /\ restClient # NilConfig) => Len(requests) = 1

\* C2 witness: a non-interactive Run returned after one request whose
\* page carried rows and a continuation token.
C2_Witness ==
    /\ ~o.Interactive /\ Returned /\ err = Nil
    /\ Len(requests) = 1
    /\ Len(table.Rows) >= 1 /\ table.Continue # Empty

\* C3: a non-interactive Run that received a page with at least one row
\* and a non-empty token, and wrote the page, returns without error having
\* written the page and then, as its last write, the one line carrying the
\* token of that page.
C3_TokenLineLast ==
    ( /\ ~o.Interactive /\ Returned
      /\ Len(table.Rows) >= 1 /\ table.Continue # Empty
      /\ err # Errorf("write failed") ) =>
        /\ err = Nil
        /\ out = <<PrintObj(table), ContinueLine(table.Continue)>>

\* C3 witness: such a Run, started with a token, has returned.
C3_Witness ==
    /\ ~o.Interactive /\ Returned /\ err = Nil
    /\ o.ContinueToken # Empty
    /\ Len(table.Rows) >= 1 /\ table.Continue # Empty
    /\ table.Continue # o.ContinueToken

\* The first request of this Run was answered with a page without rows.
FirstPageEmpty ==
    /\ Len(requests) = 1
    /\ err # Errorf("request failed")
    /\ table.Rows = << >>

\* C4: when the first request is answered with a page without rows, Run
\* has written the one notice and nothing else, has issued no other
\* request, and has returned without error.
C4_NoResourcesNotice ==
    FirstPageEmpty =>
        /\ out = <<Notice>>
        /\ Returned
        /\ err = Nil
        /\ PrintedToken = Empty

\* C4 witness: the empty first page answered a request that carried a
\* starting token, and carries a token itself.
C4_Witness ==
    /\ FirstPageEmpty /\ Returned
    /\ o.ContinueToken # Empty
    /\ table.Continue # Empty

\* C5: at the prompt of an interactive Run (a page with a non-empty token
\* was just shown), reading 'n' sends Run to a new request, and that request
\* is one request added to those issued, carrying the token of the page
\* just shown; reading any other key makes Run return without error and
\* without a request; and a session that has returned takes no further step.
C5_AcceptOrQuit ==
    [][ /\ (pc = "ReadRune" /\ char' = "n") =>
              /\ pc' = "List" /\ err' = Nil
              /\ requests' = requests
              /\ continueToken' = table.Continue
        /\ (pc = "ReadRune" /\ char' \in Runes \ {"n"}) =>
              /\ pc' = "exit" /\ err' = Nil
              /\ requests' = requests
        /\ (pc = "List" /\ ~isFirstRequest) =>
              /\ char = "n"
              /\ Len(requests') = Len(requests) + 1
              /\ SubSeq(requests', 1, Len(requests)) = requests
              /\ requests'[Len(requests')].Continue = table.Continue
        /\ (pc = "exit" /\ o.Interactive) => FALSE
      ]_vars

\* C5 witness: the user accepted at the prompt and the second request went
\* out with the token of the first page.
C5_Witness ==
    /\ o.Interactive /\ char = "n"
    /\ Len(requests) = 2
    /\ requests[2].Continue # Empty
    /\ requests[2].Continue # requests[1].Continue

\* The last request was answered with a page carrying the empty token, and
\* Run wrote that page (it was not the notice case, and the write did not
\* fail).
RenderedLastPage ==
    /\ requests # << >>
    /\ err = Nil
    /\ table.Continue = Empty
    /\ out # <<Notice>>

\* The number of writes of w in the output.
Count(w) == Cardinality({i \in 1..Len(out) : out[i] = w})

\* C6: after a rendered page with the empty token, Run has returned: an
\* interactive session wrote the end-of-list marker once, right after the
\* page, and is not prompting; a non-interactive session wrote nothing
\* after the page.
C6_EndOfList ==
    RenderedLastPage =>
        /\ Returned
        /\ out[Len(out)].kind # Prompt.kind
        /\ IF o.Interactive
           THEN /\ Len(out) >= 2
                /\ out[Len(out)] = EndOfList
                /\ out[Len(out) - 1] = PrintObj(table)
                /\ Count(EndOfList) = 1
           ELSE /\ out = <<PrintObj(table)>>
                /\ PrintedToken = Empty

\* C6 witness: an interactive session reached the end of the list on its
\* second page.
C6_Witness ==
    /\ RenderedLastPage /\ o.Interactive
    /\ Len(requests) = 2
    /\ Len(table.Rows) >= 1

\* The three rules of Validate.
Rejects(opts) ==
    \/ opts.Limit <= 0
    \/ opts.Interactive /\ opts.ContinueToken # Empty
    \/ opts.Interactive /\ opts.OutputFormat \notin {"", "wide"}

\* C7: the Validate step returns an error exactly when the limit is not
\* positive, or interactive comes with a starting token, or interactive
\* comes with an output format other than the default and wide.
C7_ValidateRejects ==
    [][ pc = "Validate" => ((err' # Nil) <=> Rejects(o)) ]_vars

\* C7 witness: Validate rejected interactive with a token although the
\* output format is a table format and the limit is positive.
C7_Witness ==
    /\ Returned /\ err = Validate(o) /\ err # Nil
    /\ o.Limit > 0 /\ o.Interactive /\ o.ContinueToken # Empty
    /\ o.OutputFormat = "wide"

\* C8: options that Validate rejects never reach Run: no resource lookup,
\* no list request, no write.
C8_NothingAfterValidationError ==
    Validate(o) # Nil =>
        /\ pc \in {"RunE", "Complete", "Validate", "exit"}
        /\ lookups = << >>
        /\ requests = << >>
        /\ out = << >>
        /\ stdoutLines = 0

\* C8 witness: Complete succeeded, Validate returned its error and the
\* command returned it.
C8_Witness ==
    /\ Returned /\ err # Nil /\ err = Validate(o)
    /\ o.RESTConfig # NilConfig

\* C9: a failed list request ends the Run with that error: Run has
\* returned, and while Run is in its loop no error is pending.
C9_RequestErrorIsFatal ==
    /\ err = Errorf("request failed") => (Returned /\ requests # << >>)
    /\ pc \in {"List", "ReadRune"} => err = Nil
    /\ Returned => ~ENABLED ListPage

\* C9 witness: the third request of an interactive session failed.
C9_Witness ==
    /\ err = Errorf("request failed") /\ Returned
    /\ o.Interactive /\ Len(requests) = 3

\* The partial identifier of a raw name as the claim states it, by the
\* number of separators in the (lower-cased) name.
Dots(s) == {i \in 1..Len(s) : s[i] = "."}

ExpectedPartial(name) ==
    LET low == ToLower(name)
    IN  IF Cardinality(Dots(low)) = 1
        THEN LET d == CHOOSE i \in Dots(low) : TRUE
             IN  GVR(SubSeq(low, d + 1, Len(low)), Empty, SubSeq(low, 1, d - 1))
        ELSE GVR(Empty, Empty, low)

\* C10: the identifier handed to the mapper has the part before the dot as
\* resource and the part after it as group when the name has exactly one
\* dot, and the whole name as resource with no group otherwise; the version
\* is never set.
C10_PartialIdentifier ==
    \A i \in 1..Len(lookups) :
        /\ lookups[i] = ExpectedPartial(o.Resource)
        /\ lookups[i].Version = Empty

\* C10 witness: a name with two dots was handed over unsplit.
C10_Witness ==
    /\ pc = "returned"
    /\ Cardinality(Dots(o.Resource)) = 2
    /\ Len(lookups) = 1
    /\ lookups[1].Group = Empty /\ lookups[1].Resource = ToLower(o.Resource)

\* C11: when the mapper answers with an error, whatever the error,
\* GetResourceGVR returns the zero identifier and a not-found error that
\* names the resource as it was typed, before lower-casing; when the mapper
\* answers with an identifier, GetResourceGVR returns that identifier and
\* no error.
C11_MapperAnswerReturned ==
    pc = "returned" =>
        LET answer == answers[Len(answers)]
        IN  IF answer.err # Nil
            THEN /\ gvr = ZeroGVR
                 /\ err = <<"the server doesn't have a resource type", o.Resource>>
            ELSE /\ gvr = answer.gvr
                 /\ err = Nil

\* The mapper failed on a name typed with a capital letter.
C11_Witness ==
    /\ pc = "returned"
    /\ answers[Len(answers)].err = Errorf("group does not match")
    /\ o.Resource = <<"A", ".", "b">>
    /\ lookups = <<GVR(<<"b">>, Empty, <<"a">>)>>
    /\ err # Nil

\* C12: the client NewRestClient builds has the path prefix "/api" when
\* the group is empty and "/apis" when it is not, whatever the version and
\* whatever path prefix the configuration handed in already had.
C12_PathPrefixFromGroup ==
    (pc = "returned" /\ err = Nil) =>
        restClient.APIPath = IF gvr.Group = Empty THEN "/api" ELSE "/apis"

\* A configuration with a prefix of its own, the core group, a version
\* other than v1.
C12_Witness ==
    /\ pc = "returned"
    /\ err = Nil
    /\ o.RESTConfig.APIPath = "/custom"
    /\ gvr.Group = Empty
    /\ gvr.Version = <<"v2">>
    /\ restClient.APIPath = "/api"
\* C13: with --all-namespaces every list request of the Run is addressed
\* to the empty namespace, whatever namespace was configured; without it
\* every request is addressed to the configured namespace.
C13_NamespaceOfRequests ==
    \A i \in 1..Len(requests) :
        requests[i].Namespace = IF o.AllNamespaces THEN "" ELSE o.Namespace

\* Two requests of an interactive Run with --all-namespaces and a
\* configured namespace.
C13_Witness ==
    /\ o.AllNamespaces
    /\ o.Namespace = "test"
    /\ Len(requests) = 2
    /\ requests[2].Namespace = ""
\* The lines of the output of this Run that begin with the text first.
LinesOfKind(first) ==
    {i \in 1..Len(Lines(out)) : Lines(out)[i] # << >> /\ Lines(out)[i][1] = first}

\* The lines of the output of this Run that are not empty.
NonEmptyLines == {i \in 1..Len(Lines(out)) : Lines(out)[i] # << >>}

\* A non-interactive Run has returned without error, and the page it was
\* served was a full one: as many rows as the limit allows and items are
\* left, and a token exactly when items are left after them.
ServedInFull ==
    /\ ~o.Interactive
    /\ Returned
    /\ err = Nil
    /\ Len(requests) = 1
    /\ Len(table.Rows) = Min(o.Limit, items - Offset(o.ContinueToken))
    /\ TokenExact(items, o.ContinueToken, table)

\* C14: with more items than the limit L, a non-interactive invocation
\* without a starting token that is served a full page writes one header
\* line, L row lines and one token line, L + 2 non-empty lines in all; the
\* invocation started with that token while at most L items are left
\* writes the K - L rows that are left and no token line.
C14_LinesOfTwoInvocations ==
    (ServedInFull /\ chainStart = Empty /\ items > o.Limit) =>
        /\ (runs = 1 =>
               /\ Cardinality(LinesOfKind("header")) = 1
               /\ Cardinality(LinesOfKind("row")) = o.Limit
               /\ Cardinality(LinesOfKind("Continue Token: ")) = 1
               /\ Cardinality(NonEmptyLines) = o.Limit + 2)
        /\ ((runs = 2 /\ o.ContinueToken = Token(o.Limit) /\ items - o.Limit <= o.Limit) =>
               /\ Cardinality(LinesOfKind("row")) = items - o.Limit
               /\ Cardinality(LinesOfKind("Continue Token: ")) = 0
               /\ shown = PageRows(0, items))

\* Three items, limit two: the second invocation has written the third.
C14_Witness ==
    /\ ServedInFull
    /\ chainStart = Empty
    /\ items = 3
    /\ o.Limit = 2
    /\ runs = 2
    /\ o.ContinueToken = Token(2)
    /\ Lines(out) = << <<"header">>, <<"row", 3>> >>
\* C15: every prompt round takes exactly one character from the input:
\* the characters taken from os.Stdin are as many as the keys read (one
\* line break goes to os.Stdout per key read), so the characters waiting
\* behind the key read are still there for the next round.
C15_OneCharacterPerRound == stdinRead = stdoutLines

\* Two accept keys were waiting and three pages were there to show, and
\* the second prompt found the input empty.
C15_TypedAheadLost ==
    /\ o.Interactive
    /\ items = 3
    /\ o.Limit = 1
    /\ Len(requests) = 2
    /\ stdinRead = 2
    /\ stdoutLines = 1
    /\ stdin = << >>
    /\ err = Errorf("EOF")
\* C16: every write the sink answers with an error ends the Run with that
\* error and without a further request, whether the write was the
\* rendered page, the 'No resources found.' notice, the prompt, the
\* end-of-list marker or the token line.
C16_WriteErrorIsFatal ==
    writeErrors # {} => (Returned /\ err = Errorf("write failed"))

\* The sink failed on the prompt, and the session went on to ask for the
\* next page.
C16_FailedPromptGoesOn ==
    /\ writeErrors = {Prompt.kind}
    /\ Len(requests) = 2
    /\ err = Nil
\* C17: in an interactive session a failed read of the user's key ends the
\* session: Run returns with the error of the read, the step issues no
\* request, and none follows, the Run staying returned with that error.
C17_ReadErrorIsFatal ==
    /\ [][(pc = "ReadRune" /\ char' = "") =>
             /\ pc' = "exit"
             /\ err' \in ReadErrors(stdin)
             /\ requests' = requests]_vars
    /\ [](err \in {Errorf("read failed"), Errorf("EOF")} =>
             (Returned /\ o.Interactive /\ out[Len(out)] = Prompt))

\* The read failed at the second prompt, with a page still to come.
C17_Witness ==
    /\ Returned
    /\ err = Errorf("read failed")
    /\ char = ""
    /\ Len(requests) = 2
    /\ table.Continue # Empty
\* The step of RunE that returned the error, "none" when RunE returned nil.
\* Run has started exactly when the resource was looked up.
FailedStep ==
    IF err = Nil THEN "none"
    ELSE IF lookups # << >> THEN "Run"
    ELSE IF err[1] = "Complete" THEN "Complete"
    ELSE IF Len(args) # 1 THEN "args"
    ELSE "Validate"

\* C18: the command exits with a non-zero code whenever the check of the
\* arguments (none, or more than one), Complete, Validate or Run returns
\* an error, the steps running in this order and none after the first
\* that fails; it exits with zero only when all four succeeded.
C18_ExitCode ==
    Returned =>
        /\ (FailedStep # "none") => ExitCode(err) # 0
        /\ (Len(args) # 1) =>
              (FailedStep = "args" /\ o.Resource = Empty /\ o.RESTConfig = NilConfig)
        /\ (FailedStep = "Complete") => (Len(args) = 1 /\ o.Resource = args[1])
        /\ (Len(args) = 1 /\ FailedStep # "Complete" /\ Validate(o) # Nil) =>
              (FailedStep = "Validate" /\ err = Validate(o))
        /\ (FailedStep \in {"args", "Complete", "Validate"}) =>
              (lookups = << >> /\ requests = << >> /\ out = << >>)
        /\ (ExitCode(err) = 0) =>
              /\ Len(args) = 1
              /\ o.RESTConfig # NilConfig
              /\ Validate(o) = Nil
              /\ lookups # << >>
              /\ FailedStep = "none"

\* The three earlier steps passed and Run returned the error of a failed
\* request for the second page.
C18_Witness ==
    /\ Returned
    /\ FailedStep = "Run"
    /\ Len(requests) = 2
    /\ err = Errorf("request failed")
    /\ ExitCode(err) = 1
\* C19: the first list request of a Run carries the configured starting
\* token, and every later request carries the token of the page received
\* just before it, not an older one and not the starting token again;
\* the limit, the namespace and the label selector are the same in every
\* request of the Run.
C19_TokenChain ==
    /\ [](requests # << >> => requests[1].Continue = o.ContinueToken)
    /\ [](\A i \in 1..Len(requests) :
             /\ requests[i].Limit = o.Limit
             /\ requests[i].Namespace = requests[1].Namespace
             /\ requests[i].LabelSelector = o.Selector)
    /\ [][(requests # << >> /\ Len(requests') > Len(requests)) =>
             /\ requests' = Append(requests, requests'[Len(requests')])
             /\ requests'[Len(requests')].Continue = table.Continue]_vars

\* Three requests of an interactive session: the empty token, then the
\* token of the first page, then the token of the second.
C19_Witness ==
    /\ Len(requests) = 3
    /\ requests[1].Continue = Empty
    /\ requests[2].Continue = Token(1)
    /\ requests[3].Continue = Token(2)
    /\ requests[3].LabelSelector = "app=web"
    /\ o.Limit = 1
\* C20: 'No resources found.' is written at most once in a Run, and only
\* as the answer to its first request; in an interactive session a page
\* without rows that comes after an accepted prompt is rendered like any
\* page and followed by the end-of-list marker when its token is empty, by
\* a new prompt when it is not.
C20_NoticeOnFirstRequestOnly ==
    /\ [](Count(Notice) <= 1)
    /\ [](Count(Notice) = 1 => (out = <<Notice>> /\ Len(requests) = 1))
    /\ [][(/\ pc = "List"
           /\ ~isFirstRequest
           /\ err' # Errorf("request failed")
           /\ table'.Rows = << >>)
          =>
          (/\ out' = out \o <<PrintObj(table')>>
                          \o (IF err' # Nil THEN << >>
                              ELSE IF table'.Continue = Empty THEN <<EndOfList>>
                              ELSE <<Prompt>>)
           /\ err' = Nil => pc' = (IF table'.Continue = Empty THEN "exit" ELSE "ReadRune"))]_vars

\* The second page of an interactive session came without rows and with a
\* token: it was rendered and the prompt followed.
C20_Witness ==
    /\ o.Interactive
    /\ Len(requests) = 2
    /\ table.Rows = << >>
    /\ table.Continue # Empty
    /\ pc = "ReadRune"
    /\ Count(Notice) = 0
    /\ Len(out) = 4
    /\ out[3] = PrintObj(table)
    /\ out[4] = Prompt
\* C21: the output of a Run only grows, and a failed list request writes
\* nothing: Run returns the error with the output exactly as the earlier
\* pages and prompts left it.
C21_OutputAppendOnly ==
    /\ [][pc' # "RunE" =>
             (Len(out') >= Len(out) /\ SubSeq(out', 1, Len(out)) = out)]_vars
    /\ [][(pc = "List" /\ err' = Errorf("request failed")) =>
             (out' = out /\ pc' = "exit")]_vars
    /\ [](err = Errorf("request failed") => Returned)

\* The request for the second page failed: the first page and its prompt
\* are all the output.
C21_Witness ==
    /\ Returned
    /\ err = Errorf("request failed")
    /\ Len(requests) = 2
    /\ out = <<PrintObj(table), Prompt>>
    /\ Len(table.Rows) = 2
\* C22: every Run returns.  A non-interactive Run has returned once its
\* one request is made; an interactive Run over a finite collection whose
\* backend serves it page by page (a row at least while items are left, a
\* token exactly when items are left) returns after finitely many pages,
\* and when every prompt was answered with the accept key the last page is
\* followed by the end-of-list marker.
C22_RunReturns ==
    /\ <>(Returned \/ ~tokensExact \/ ~pagesHoldRows)
    /\ []((~o.Interactive /\ Len(requests) = 1) => Returned)
    /\ []((/\ o.Interactive
           /\ Returned
           /\ err = Nil
           /\ ~isFirstRequest
           /\ (stdoutLines = 0 \/ char = "n"))
          => out[Len(out)] = EndOfList)

\* Three items shown one by one, every prompt answered with the accept
\* key: the session has returned after the third page and the marker.
C22_Witness ==
    /\ o.Interactive
    /\ Returned
    /\ err = Nil
    /\ items = 3
    /\ Len(requests) = 3
    /\ stdoutLines = 2
    /\ char = "n"
    /\ shown = PageRows(0, 3)
    /\ out[Len(out)] = EndOfList
\* C23: in an interactive session that passed Validate the first list
\* request carries the empty token: no interactive session starts in the
\* middle of the collection.
C23_InteractiveStartsAtBeginning ==
    (o.Interactive /\ requests # << >>) =>
        (requests[1].Continue = Empty /\ o.ContinueToken = Empty)

\* An interactive session is at its second request, its first having
\* carried the empty token.
C23_Witness ==
    /\ o.Interactive
    /\ Len(requests) = 2
    /\ requests[1].Continue = Empty
    /\ requests[2].Continue = Token(1)
\* C24: whatever the raw name, the partial identifier GetResourceGVR
\* hands to the mapper has a resource that is not empty (the group alone
\* may be empty), the names that start or end with the separator and the
\* empty name included.
C24_ResourceNeverEmpty ==
    \A i \in 1..Len(lookups) : lookups[i].Resource # Empty

\* The name is a separator followed by a group: the mapper was asked for
\* the empty resource of that group.
C24_LeadingSeparator ==
    /\ pc = "returned"
    /\ o.Resource = <<".", "b">>
    /\ lookups = <<GVR(<<"b">>, Empty, Empty)>>
\* C25: the resolution of a name does not look at letter case: every
\* name that differs from the name typed in letter case only gives the
\* partial identifier that was handed to the mapper, and the resource and
\* the group of that identifier are in lower case, the name being
\* lower-cased before it is split.
C25_CaseInsensitive ==
    pc = "returned" =>
        /\ \A n \in Names :
              ToLower(n) = ToLower(o.Resource) => GvrToFind(n) = lookups[1]
        /\ lookups[1].Resource = ToLower(lookups[1].Resource)
        /\ lookups[1].Group = ToLower(lookups[1].Group)
        /\ lookups[1] = GvrToFind(ToLower(o.Resource))

\* A name whose group is typed with a capital letter.
C25_Witness ==
    /\ pc = "returned"
    /\ o.Resource = <<"a", ".", "A">>
    /\ lookups = <<GVR(<<"a">>, Empty, <<"a">>)>>
\* C26: when several rules of Validate are broken at once Validate
\* returns one error, by a fixed order: the error of the limit first, then
\* the error of interactive with a starting token, then the error of
\* interactive with an output format that is not a table; the output
\* format plays no part when an earlier rule is broken or interactive is
\* not set.
C26_ValidatePrecedence ==
    [][pc = "Validate" =>
         /\ o.Limit <= 0 =>
                err' = Errorf("--limit must be a positive number")
         /\ (o.Limit > 0 /\ o.Interactive /\ o.ContinueToken # Empty) =>
                err' = Errorf("cannot use --interactive and --continue flags together")
         /\ (o.Limit > 0 /\ o.Interactive /\ o.ContinueToken = Empty
                /\ o.OutputFormat \notin {"", "wide"}) =>
                err' = Errorf("interactive mode is only supported for standard and wide table output")
         /\ (o.Limit > 0 /\ ~o.Interactive) => err' = Nil
         /\ \A f \in OutputFormats :
                (o.Limit <= 0 \/ ~o.Interactive \/ o.ContinueToken # Empty) =>
                    err' = Validate([o EXCEPT !.OutputFormat = f])]_vars

\* The three rules were broken together and Validate returned the error
\* of the limit.
C26_Witness ==
    /\ Returned
    /\ lookups = << >>
    /\ o.Limit <= 0
    /\ o.Interactive
    /\ o.ContinueToken # Empty
    /\ o.OutputFormat = "json"
    /\ o.RESTConfig # NilConfig
    /\ err = Errorf("--limit must be a positive number")
\* C27: building the table client leaves the caller's configuration as
\* it was: across the call of NewRestClient (the one Run makes included)
\* the stored configuration keeps its path prefix, its group and version
\* and its accepted content types, although the client's configuration
\* has its own.
C27_TemplateUnchanged ==
    /\ [][(pc = "NewRestClient" \/ pc = "Run") =>
             (/\ o'.RESTConfig.APIPath = o.RESTConfig.APIPath
              /\ o'.RESTConfig.GroupVersion = o.RESTConfig.GroupVersion
              /\ o'.RESTConfig.AcceptContentTypes = o.RESTConfig.AcceptContentTypes
              /\ o'.RESTConfig = o.RESTConfig)]_vars
    /\ []((restClient # NilConfig) =>
             /\ restClient.AcceptContentTypes # o.RESTConfig.AcceptContentTypes
             /\ restClient.GroupVersion = GroupVersion(gvr)
             /\ o.RESTConfig.AcceptContentTypes = "")

\* A client of the core group was built from a configuration that has a
\* path prefix and a group of its own, and the configuration still has
\* them.
C27_Witness ==
    /\ pc = "returned"
    /\ err = Nil
    /\ gvr.Group = Empty
    /\ restClient.APIPath = "/api"
    /\ o.RESTConfig = Config("/custom", [Group |-> <<"b">>, Version |-> <<"v1">>], "", "")
====
